---- MODULE Spec2Model ----
(***************************************************************************)
(* Model of the Skylens API handlers (src/api/main.py) and of the          *)
(* configuration they run under (src/api/config.py).                       *)
(*                                                                         *)
(* The service keeps no state between requests.  The state of the model   *)
(* is the process configuration, the request being served and the          *)
(* response sent for it.  Each action is one whole request: FastAPI's      *)
(* parameter validation, the handler body and the exception handling.      *)
(*                                                                         *)
(* Text that the code inspects character by character (the intent target:  *)
(* upper(), lower(), startswith()) is a sequence of one-character strings. *)
(* Text the code only passes along (action, q, icao, answer) is a string.  *)
(* An Optional value is <<>> for None and <<v>> for a supplied v.          *)
(* A float is a record [k, v]: a finite number v, an infinity of sign v,   *)
(* or NaN, compared as Python compares floats.                             *)
(***************************************************************************)
EXTENDS Integers, Sequences, FiniteSets, TLC

VARIABLES config, request, response

vars == <<config, request, response>>

----------------------------------------------------------------------------
(* Bounds of the model *)

\* speeds are enumerated within SpeedMargin of each clamping threshold
SpeedMargin == 1
\* k is enumerated from -KMargin to MaxK
KMargin == 1
MaxK == 21

----------------------------------------------------------------------------
(* Optional values *)

None == <<>>
Some(v) == <<v>>
IsNone(o) == o = <<>>
Get(o) == o[1]

----------------------------------------------------------------------------
(* Python str methods used by post_intent, on sequences of characters *)

Letters ==
  { <<"a", "A">>, <<"b", "B">>, <<"c", "C">>, <<"d", "D">>, <<"e", "E">>,
    <<"f", "F">>, <<"g", "G">>, <<"i", "I">>, <<"l", "L">>, <<"n", "N">>,
    <<"o", "O">>, <<"r", "R">>, <<"s", "S">>, <<"t", "T">>, <<"u", "U">>,
    <<"z", "Z">> }

UpperChar(c) ==
  IF \E p \in Letters : p[1] = c
    THEN (CHOOSE p \in Letters : p[1] = c)[2]
    ELSE c

LowerChar(c) ==
  IF \E p \in Letters : p[2] = c
    THEN (CHOOSE p \in Letters : p[2] = c)[1]
    ELSE c

\* str.upper()
Upper(s) == [i \in 1..Len(s) |-> UpperChar(s[i])]

\* str.lower()
Lower(s) == [i \in 1..Len(s) |-> LowerChar(s[i])]

\* str.startswith(prefix)
StartsWith(s, prefix) ==
  /\ Len(s) >= Len(prefix)
  /\ SubSeq(s, 1, Len(prefix)) = prefix

\* truth value of an Optional[str]: None and "" are false
Truthy(o) == ~IsNone(o) /\ Get(o) # <<>>

EGLL == <<"E", "G", "L", "L">>
BuildingsPrefix == <<"b", "u", "i", "l", "d", "i", "n", "g", "s", ":">>

----------------------------------------------------------------------------
(* Python floats *)

Num(n) == [k |-> "num", v |-> n]
NaN == [k |-> "nan", v |-> 0]
PosInf == [k |-> "inf", v |-> 1]
NegInf == [k |-> "inf", v |-> -1]

\* a < b on floats; every comparison with NaN is false
Lt(a, b) ==
  CASE a.k = "nan" \/ b.k = "nan" -> FALSE
    [] a.k = "inf" /\ b.k = "inf" -> a.v < b.v
    [] a.k = "inf" /\ b.k = "num" -> a.v < 0
    [] a.k = "num" /\ b.k = "inf" -> b.v > 0
    [] OTHER -> a.v < b.v

\* builtin min(a, b): the first argument unless the second is smaller
PyMin(a, b) == IF Lt(b, a) THEN b ELSE a

\* builtin max(a, b): the first argument unless the second is larger
PyMax(a, b) == IF Lt(a, b) THEN b ELSE a

SpeedMin == 0
SpeedMax == 1000


----------------------------------------------------------------------------
(* HTTP responses *)

\* a response that carries a body (FastAPI's default status for a returned model)
Ok(body) == [status |-> 200, detail |-> "", body |-> Some(body)]

\* the response FastAPI sends for a raised HTTPException
HttpError(status_code, detail) ==
  [status |-> status_code, detail |-> detail, body |-> None]

\* the response FastAPI sends for a request that fails parameter validation
ValidationError == HttpError(422, "validation error")

NoRequest == [op |-> "none"]
NoResponse == [status |-> 0, detail |-> "", body |-> None]

----------------------------------------------------------------------------
(* POST /ai/intent *)

valid_actions == {"fly_to", "orbit", "follow", "chase", "set_layer"}

\* the outcome of a block of code: a returned value or a raised exception
Return(value) == [raised |-> FALSE, value |-> value]
Raise(exc) == [raised |-> TRUE, value |-> exc]

\* raise HTTPException(status_code=..., detail=...)
HTTPException(status_code, detail) ==
  [type |-> "HTTPException", status_code |-> status_code, detail |-> detail]

\* isinstance(exc, Exception): HTTPException derives from Exception
IsException(exc) == exc.type \in {"HTTPException", "Exception"}

\* Target normalization and validation: the value of mapped_target for a
\* valid action, or the exception raised for a bad set_layer target
MapTarget(action, target) ==
  IF action \in {"fly_to", "orbit"}
    THEN IF ~Truthy(target) \/ Upper(Get(target)) # EGLL
           THEN Return(Some(EGLL))
           ELSE Return(target)
    ELSE IF action = "set_layer"
      THEN IF ~Truthy(target) \/ ~StartsWith(Get(target), BuildingsPrefix)
             THEN Raise(HTTPException(400, "set_layer requires target like 'buildings:on'"))
             ELSE Return(Some(Lower(Get(target))))
      ELSE Return(target)

\* ClampSpeed with the lower clamp, max(0.0, ...), left out
ClampSpeedNoFloor(speed) ==
  IF IsNone(speed) THEN None ELSE Some(PyMin(Num(SpeedMax), Get(speed)))

\* Speed clamping for camera animations: the value of mapped_speed
ClampSpeed(speed) ==
  IF IsNone(speed)
    THEN None
    ELSE Some(PyMax(Num(SpeedMin), PyMin(Num(SpeedMax), Get(speed))))

\* the body of the try block of post_intent
IntentTry(req) ==
  IF req.action \notin valid_actions
    THEN Raise(HTTPException(422, "Invalid action"))
    ELSE LET t == MapTarget(req.action, req.target)
         IN  IF t.raised
               THEN t
               ELSE Return([ok |-> TRUE,
                            action |-> req.action,
                            mapped |-> [target |-> t.value,
                                        speed |-> ClampSpeed(req.speed)]])

\* post_intent: the try block under its "except Exception" clause, which
\* replaces whatever was raised by HTTPException(500)
post_intent(req) ==
  LET r == IntentTry(req)
  IN  IF r.raised /\ IsException(r.value)
        THEN Raise(HTTPException(500, "Intent processing failed"))
        ELSE r

\* what the caller of POST /ai/intent receives: IntentRequest validation
\* (action is required), then the handler
IntentEndpoint(req) ==
  IF IsNone(req.action)
    THEN ValidationError
    ELSE LET r == post_intent([action |-> Get(req.action),
                               target |-> req.target,
                               speed |-> req.speed])
         IN  IF r.raised
               THEN HttpError(r.value.status_code, r.value.detail)
               ELSE Ok(r.value)

----------------------------------------------------------------------------
(* Configuration: the fields of AppConfig the retrieval provider depends on *)

\* bool(s) of an Optional[str] setting
IsSet(o) == ~IsNone(o) /\ Get(o) # ""

\* AppConfig.has_aoai
has_aoai(cfg) == IsSet(cfg.aoai_endpoint) /\ IsSet(cfg.aoai_api_key)

\* AppConfig(): rag_provider defaults to "local" and is read from the
\* environment (RAG_PROVIDER); the Azure OpenAI settings default to None
AppConfig ==
  [rag_provider : {"local", "azure"},
   aoai_endpoint : {None, Some("https://aoai.example")},
   aoai_api_key : {None, Some("key")}]

----------------------------------------------------------------------------
(* GET /ai/notam *)

DemoMatch ==
  [id |-> "EGLL-2025-001",
   icao |-> "EGLL",
   text |-> "Demo NOTAM: Standard runway operations in effect",
   score_pct |-> 85]

DemoAnswer ==
  "Demo response: No active runway closures reported for London Heathrow at this time. Standard operations are in effect."

\* get_notam_answer citing a record that is not among its matches
NotamCitesOtherRecord(q, icao, k) ==
  [answer |-> DemoAnswer,
   citations |-> <<"EGLL-2025-002">>,
   matches |-> <<DemoMatch>>,
   provider |-> "demo"]

\* get_notam_answer tagged with the METAR provider name instead
NotamTagsWeatherProvider(q, icao, k) ==
  [answer |-> DemoAnswer,
   citations |-> <<"EGLL-2025-001">>,
   matches |-> <<DemoMatch>>,
   provider |-> "awc"]

\* get_notam_answer: the NotamAnswer returned for (q, icao, k); the handler
\* reads none of its parameters and nothing of the configuration
get_notam_answer(q, icao, k) ==
  [answer |-> DemoAnswer,
   citations |-> <<"EGLL-2025-001">>,
   matches |-> <<DemoMatch>>,
   provider |-> "demo"]

\* a raw query parameter k: absent, an integer literal, or other text
KAbsent == [kind |-> "absent", v |-> 0]
KInt(n) == [kind |-> "int", v |-> n]
KText == [kind |-> "text", v |-> 0]

\* the arguments FastAPI passes for the signature
\* (q: str, icao: str = "EGLL", k: int = 5)
NotamArgs(req) ==
  [q |-> Get(req.q),
   icao |-> IF IsNone(req.icao) THEN "EGLL" ELSE Get(req.icao),
   k |-> IF req.k.kind = "absent" THEN 5 ELSE req.k.v]

\* what the caller of GET /ai/notam receives: q is required and k must
\* parse as an integer, then the handler
NotamEndpoint(req) ==
  IF IsNone(req.q) \/ req.k.kind = "text"
    THEN ValidationError
    ELSE LET a == NotamArgs(req)
         IN  Ok(get_notam_answer(a.q, a.icao, a.k))

----------------------------------------------------------------------------
(* Requests *)

IntentActions ==
  {None, Some("land")} \cup {Some(a) : a \in valid_actions}

IntentTargets ==
  { None,
    Some(<<>>),
    Some(EGLL),
    Some(<<"e", "g", "l", "l">>),
    Some(<<"E", "G", "L", "C">>),
    Some(BuildingsPrefix \o <<"o", "n">>),
    Some(BuildingsPrefix \o <<"O", "F", "F">>),
    Some(<<"B">> \o Tail(BuildingsPrefix) \o <<"o", "n">>),
    Some(<<"t", "e", "r", "r", "a", "i", "n", ":", "o", "n">>) }

IntentSpeeds ==
  {None, Some(NaN), Some(PosInf), Some(NegInf), Some(Num(500))}
    \cup {Some(Num(n)) : n \in (SpeedMin - SpeedMargin)..(SpeedMin + SpeedMargin)}
    \cup {Some(Num(n)) : n \in (SpeedMax - SpeedMargin)..(SpeedMax + SpeedMargin)}

NotamQuestions == {None, Some(""), Some("runway closures at Heathrow")}

NotamAirports == {None, Some("EGLL"), Some("EGLC"), Some("ZZZZ")}

NotamKs == {KAbsent, KText} \cup {KInt(n) : n \in (0 - KMargin)..MaxK}

----------------------------------------------------------------------------
(* The service *)

Init ==
  /\ config \in AppConfig
  /\ request = NoRequest
  /\ response = NoResponse

\* one POST /ai/intent request, from its body to the response sent
PostIntent ==
  \E a \in IntentActions, t \in IntentTargets, s \in IntentSpeeds :
    /\ request' = [op |-> "post_intent", action |-> a, target |-> t, speed |-> s]
    /\ response' = IntentEndpoint(request')
    /\ UNCHANGED config

\* one GET /ai/notam request, from its query string to the response sent
GetNotamAnswer ==
  \E q \in NotamQuestions, i \in NotamAirports, k \in NotamKs :
    /\ request' = [op |-> "get_notam_answer", q |-> q, icao |-> i, k |-> k]
    /\ response' = NotamEndpoint(request')
    /\ UNCHANGED config

Next == PostIntent \/ GetNotamAnswer

Spec == Init /\ [][Next]_vars

----------------------------------------------------------------------------
(* Properties of GET /ai/notam *)

\* C1: every identifier in an answer's citations is the id of one of the
\* same answer's matches
C1_CitationsAmongMatches ==
  (request.op = "get_notam_answer" /\ ~IsNone(response.body)) =>
    LET body == Get(response.body)
    IN  \A i \in 1..Len(body.citations) :
          \E j \in 1..Len(body.matches) :
            body.matches[j].id = body.citations[i]

\* C1 witness: an answer that cites a record
C1_Witness ==
  /\ request.op = "get_notam_answer"
  /\ ~IsNone(response.body)
  /\ Len(Get(response.body).citations) >= 1
  /\ Len(Get(response.body).matches) >= 1

\* C2: with the vector strategy configured and the embedding backend not
\* available, a well-formed request is answered with provider
\* "local-fallback"
C2_FallbackWhenEmbeddingUnavailable ==
  ( /\ request.op = "get_notam_answer"
    /\ config.rag_provider = "azure"
    /\ ~has_aoai(config)
    /\ ~IsNone(request.q)
    /\ request.k.kind # "text"
    /\ NotamArgs(request).k \in 1..20 ) =>
    /\ response.status = 200
    /\ ~IsNone(response.body)
    /\ Get(response.body).provider = "local-fallback"

\* C3: an answer holds at most the requested k matches
C3_MatchesAtMostK ==
  (request.op = "get_notam_answer" /\ ~IsNone(response.body)) =>
    Len(Get(response.body).matches) <= NotamArgs(request).k

\* C4: a well-formed request for the unsupported airport ZZZZ is answered
\* without an error, with no matches, no citations and an answer other than
\* a report on an airport's notices
C4_UnsupportedAirportHasNoMatches ==
  ( /\ request.op = "get_notam_answer"
    /\ request.icao = Some("ZZZZ")
    /\ ~IsNone(request.q)
    /\ request.k.kind # "text"
    /\ NotamArgs(request).k \in 1..20 ) =>
    /\ response.status = 200
    /\ ~IsNone(response.body)
    /\ Get(response.body).matches = <<>>
    /\ Get(response.body).citations = <<>>
    /\ Get(response.body).answer # DemoAnswer

\* C5: a request whose k is an integer outside 1..20 is rejected with a
\* client error (4xx) and carries no answer
C5_KOutOfRangeRejected ==
  ( /\ request.op = "get_notam_answer"
    /\ request.k.kind = "int"
    /\ request.k.v \notin 1..20 ) =>
    /\ response.status \in 400..499
    /\ IsNone(response.body)

\* C6: the provider of every answer is one of "local", "azure",
\* "local-fallback", "demo"
C6_ProviderInDocumentedSet ==
  (request.op = "get_notam_answer" /\ ~IsNone(response.body)) =>
    Get(response.body).provider \in {"local", "azure", "local-fallback", "demo"}

\* C6 witness: an answer sent for a request that names a provider
C6_Witness ==
  /\ request.op = "get_notam_answer"
  /\ response.status = 200
  /\ ~IsNone(response.body)
  /\ Get(response.body).provider = "demo"

----------------------------------------------------------------------------
(* Properties of POST /ai/intent *)

\* C7: an action outside valid_actions is answered with status 422, a
\* set_layer request whose target is missing or does not start with
\* "buildings:" with status 400, and status 500 is sent for neither
C7_ValidationStatusReachesCaller ==
  (request.op = "post_intent" /\ ~IsNone(request.action)) =>
    LET action == Get(request.action)
        badAction == action \notin valid_actions
        badLayer ==
          /\ action = "set_layer"
          /\ \/ IsNone(request.target)
             \/ ~StartsWith(Get(request.target), BuildingsPrefix)
    IN  /\ badAction => response.status = 422
        /\ badLayer => response.status = 400
        /\ response.status = 500 => ~(badAction \/ badLayer)

\* C8: a successful fly_to or orbit request maps its target to "EGLL",
\* whatever target was supplied
C8_FlyToOrbitTargetIsEGLL ==
  ( /\ request.op = "post_intent"
    /\ ~IsNone(response.body)
    /\ request.action \in {Some("fly_to"), Some("orbit")} ) =>
    Get(response.body).mapped.target = Some(EGLL)

\* C9: in a successful response the mapped speed is null exactly when no
\* speed was supplied; otherwise it is a number in [0, 1000], the supplied
\* speed when that lies in [0, 1000], 0 when the supplied speed is below 0
\* and 1000 when it is above 1000
C9_SpeedClamped ==
  (request.op = "post_intent" /\ ~IsNone(response.body)) =>
    LET mapped == Get(response.body).mapped.speed
    IN  /\ IsNone(mapped) <=> IsNone(request.speed)
        /\ ~IsNone(request.speed) =>
             LET s == Get(request.speed)
                 m == Get(mapped)
             IN  /\ m.k = "num" /\ m.v >= 0 /\ m.v <= 1000
                 /\ (s.k = "num" /\ s.v >= 0 /\ s.v <= 1000) => m = s
                 /\ ((s.k = "num" /\ s.v < 0) \/ s = NegInf) => m = Num(0)
                 /\ ((s.k = "num" /\ s.v > 1000) \/ s = PosInf) => m = Num(1000)

\* C9 witness: a successful response to a request whose speed was below 0
C9_Witness ==
  /\ request.op = "post_intent"
  /\ ~IsNone(response.body)
  /\ ~IsNone(request.speed)
  /\ Get(request.speed) = Num(0 - 1)
  /\ Get(response.body).mapped.speed = Some(Num(0))

====
